---- MODULE Spec2Model ----
(***************************************************************************)
(* Order-and-payment settlement engine of the restaurant POS.              *)
(*                                                                         *)
(* The model follows the latest variant of the server: the Express routes  *)
(* of src/server/routes.ts (lines 1-1076) over the N8nStorage of           *)
(* src/unnamed/part_010 (lines 222-643), the PaymentService of             *)
(* src/unnamed/part_009 and the N8nClient of src/server/n8n-client.ts.     *)
(*                                                                         *)
(* Money is kept in integer thousandths of the currency unit, so that the  *)
(* roundings to cents of the code round something: 50.00 is 50000.  A      *)
(* request's discount is kept in thousandths too: discount 10 is 10000     *)
(* (10 percent, or 10.00 fixed).  Binary floating point error is not       *)
(* modelled.                                                               *)
(*                                                                         *)
(* Node runs one handler until it awaits an outbound call.  The storage    *)
(* is in memory, so an await of a storage method resumes before any other  *)
(* request runs; a handler gives way to other requests only where it       *)
(* awaits the network: the menu fetch behind storage.getProduct and the    *)
(* workflow calls of the n8n client.  Each action below is one such        *)
(* uninterrupted stretch of a handler.                                     *)
(***************************************************************************)
EXTENDS Integers, Sequences, FiniteSets, TLC

\* ---------------------------------------------------------------- bounds
\* Order lines ever created in one run (ids are never reused).
MaxItems == 2
\* Payment records created in one run.
MaxPayments == 2
\* Direct calls of a PaymentService method on one input.
MaxCalls == 2

\* -------------------------------------------------------------- constants
\* PaymentService.IMPOCONSUMO_RATE, in percent.
IMPOCONSUMO_RATE == 8
\* PaymentModal.tsx: the shortest transaction id and QR reference the
\* payment dialog sends.
MinTransactionIdLength == 6
MinQrReferenceLength == 8

\* The seeded tables (two of the eight) and an id no table has.
TableIds == {1, 2}
UnknownTable == 9
validStatuses == {"available", "occupied", "reserved"}
\* The statuses the clients of the interleaved runs send with PUT
\* /api/tables/:id/status; "closed" is not a valid one.
SentStatuses == {"available", "occupied", "closed"}

\* The catalog the menu provider supplies: product id -> price (50.00).
ProductIds == {"1"}
UnknownProduct == "77"
Price(p) == 50000

\* Quantities a client sends with POST /api/order-items and with PUT.
AddQuantities == {0, 1}
PutQuantities == {0, 1}

\* Settle handlers that may be in flight together, and send-to-kitchen
\* handlers.  Solo is the handler of the runs in which settles do not
\* overlap one another, Kitchens that of the runs in which dispatches do
\* not.
Handlers == {"h1", "h2"}
Solo == {"h1"}
Dispatchers == {"k1", "k2"}
Kitchens == {"k1"}

\* What the kitchen webhook does with a ticket: answers 2xx, answers an
\* error status, or does not answer before the 10 s abort.
KitchenOutcomes == {"ok", "error", "abort"}

\* A value for an optional field the request leaves out.
Undef == "undefined"
NoCash == -1

\* Execution ids the payment workflow may answer with; NoExec is a failed
\* or unconfigured workflow (executionId null).
NoExec == "null"
ExecIds == {"unknown", NoExec}

\* ------------------------------------------------------------- arithmetic
\* A division that drops the fraction.
RoundDivDown(n, d) == n \div d

\* Math.round(n / d) for n >= 0, d > 0: half rounds up.
RoundDiv(n, d) == (2 * n + d) \div (2 * d)

\* No clamp: the second argument as it is.
MaxSecond(a, b) == b

\* Math.max.
Max(a, b) == IF a >= b THEN a ELSE b

\* Math.round(x * 100) / 100 for x >= 0 in thousandths: x to whole cents.
round2(x) == RoundDiv(x, 10) * 10

\* Math.round((subtotal * discount) / 100 * 100) / 100 in thousandths: the
\* product over 1000000, rounded half up, as cents.  The product is summed
\* from the whole percents and the thousandths of a percent, which keeps
\* the intermediate values small.
percentageDiscount(subtotal, discount) ==
  LET whole == subtotal * (discount \div 1000)
      part == subtotal * (discount % 1000)
  IN ((whole + (part + 500000) \div 1000) \div 1000) * 10

\* ------------------------------------------------------- PaymentService
\* The result of a call that threw inside calculateTotals.
Threw == [threw |-> TRUE, subtotal |-> 0, impoconsumo |-> 0, tip |-> 0,
          discount |-> 0, finalTotal |-> 0]

\* PaymentService.calculateTotals: subtotal, tip and discount in
\* thousandths.  (subtotal * discount) / 100 in thousandths is
\* subtotal * discount / 100000, and the tax rate is a number of percent.
calculateTotals(subtotal, tip, discount, discountType) ==
  IF subtotal < 0 \/ tip < 0 \/ discount < 0
  THEN Threw
  ELSE LET discountAmount == IF discountType = "percentage"
                             THEN percentageDiscount(subtotal, discount)
                             ELSE round2(discount)
           finalSubtotal == Max(0, subtotal - discountAmount)
           impoconsumo ==
             RoundDiv(finalSubtotal * IMPOCONSUMO_RATE, 1000) * 10
           tipAmount == round2(tip)
           finalTotal == finalSubtotal + impoconsumo + tipAmount
       IN [threw |-> FALSE, subtotal |-> round2(subtotal),
           impoconsumo |-> impoconsumo, tip |-> tipAmount,
           discount |-> discountAmount, finalTotal |-> round2(finalTotal)]

\* JavaScript's !s || s.trim() === "" for an optional string.
Blank(s) == s = Undef \/ s = ""

PaymentMethods == {"efectivo", "datafono_debito", "datafono_credito",
                   "qr_bancolombia"}

\* The checks of validateColombianPayment that every method shares.
\* employeeId is the route's fresh uuid: never blank.
GeneralErrors(pd) ==
  (IF pd.tableId <= 0 THEN <<"ID de mesa valido es requerido">> ELSE <<>>)
  \o (IF pd.subtotal <= 0 THEN <<"Subtotal debe ser mayor que cero">> ELSE <<>>)
  \o (IF pd.paymentMethod \notin PaymentMethods
      THEN <<"Metodo de pago invalido para Colombia">> ELSE <<>>)

\* A switch that does not compare the cash with the total.
MethodErrorsAnyCash(pd) ==
  CASE pd.paymentMethod = "efectivo" ->
         IF pd.cashReceived = NoCash \/ pd.cashReceived <= 0
         THEN <<"Monto recibido en efectivo es requerido">> ELSE <<>>
    [] pd.paymentMethod \in {"datafono_debito", "datafono_credito"} ->
         (IF Blank(pd.datafonoTransactionId)
          THEN <<"ID de transaccion de datafono es requerido">> ELSE <<>>)
         \o (IF pd.datafonoType = Undef
             THEN <<"Tipo de datafono es requerido">> ELSE <<>>)
    [] pd.paymentMethod = "qr_bancolombia" ->
         IF Blank(pd.qrReference)
         THEN <<"Referencia de QR Bancolombia es requerida">> ELSE <<>>
    [] OTHER -> <<"Metodo de pago no reconocido">>

\* The switch of validateColombianPayment.
MethodErrors(pd) ==
  CASE pd.paymentMethod = "efectivo" ->
         IF pd.cashReceived = NoCash \/ pd.cashReceived <= 0
         THEN <<"Monto recibido en efectivo es requerido">>
         ELSE IF pd.cashReceived <
                   calculateTotals(pd.subtotal, pd.tip, pd.discount,
                                   pd.discountType).finalTotal
              THEN <<"Efectivo insuficiente">>
              ELSE <<>>
    [] pd.paymentMethod \in {"datafono_debito", "datafono_credito"} ->
         (IF Blank(pd.datafonoTransactionId)
          THEN <<"ID de transaccion de datafono es requerido">> ELSE <<>>)
         \o (IF pd.datafonoType = Undef
             THEN <<"Tipo de datafono es requerido">> ELSE <<>>)
    [] pd.paymentMethod = "qr_bancolombia" ->
         IF Blank(pd.qrReference)
         THEN <<"Referencia de QR Bancolombia es requerida">> ELSE <<>>
    [] OTHER -> <<"Metodo de pago no reconocido">>

\* PaymentService.validateColombianPayment.  For efectivo with cash given,
\* calculateTotals runs inside the validation and may throw.
validateColombianPayment(pd) ==
  LET threw == /\ pd.paymentMethod = "efectivo"
               /\ ~(pd.cashReceived = NoCash \/ pd.cashReceived <= 0)
               /\ calculateTotals(pd.subtotal, pd.tip, pd.discount,
                                  pd.discountType).threw
      errors == GeneralErrors(pd) \o (IF threw THEN <<>> ELSE MethodErrors(pd))
  IN [threw |-> threw, isValid |-> ~threw /\ errors = <<>>, errors |-> errors]

\* The payment processColombianPayment builds when nothing was created.
NoPayment == [id |-> "", tableId |-> 0, paymentMethod |-> "", amount |-> 0,
              subtotal |-> 0, impoconsumo |-> 0, tip |-> 0, discount |-> 0,
              status |-> ""]

\* PaymentService.processColombianPayment: validation, totals, and the
\* InsertPayment object (amounts kept as numbers; the code turns
\* them into decimal strings with Number.toString).
processColombianPayment(pd) ==
  LET validation == validateColombianPayment(pd)
      calculation == calculateTotals(pd.subtotal, pd.tip, pd.discount,
                                     pd.discountType)
  IN IF ~validation.isValid \/ calculation.threw
     THEN [ok |-> FALSE, errors |-> validation.errors, payment |-> NoPayment]
     ELSE [ok |-> TRUE, errors |-> <<>>,
           payment |-> [id |-> "", tableId |-> pd.tableId,
                        paymentMethod |-> pd.paymentMethod,
                        amount |-> calculation.finalTotal,
                        subtotal |-> calculation.subtotal,
                        impoconsumo |-> calculation.impoconsumo,
                        tip |-> calculation.tip,
                        discount |-> calculation.discount,
                        status |-> "pending"]]

\* PaymentService.generateBasicInvoice.
generateBasicInvoice(payment) ==
  [paymentId |-> payment.id, subtotal |-> payment.subtotal,
   impoconsumo |-> payment.impoconsumo, totalAmount |-> payment.amount,
   dianStatus |-> "pending"]

\* ---------------------------------------------------------------- state
VARIABLES
  heap,              \* the OrderItem objects ever created, by id
  nextId,            \* the id the next created order line gets
  orderItems,        \* keys of N8nStorage.orderItems (the live lines)
  tables,            \* N8nStorage.tables: table id -> status
  idempotencyCache,  \* routes.ts idempotencyCache: cacheKey -> response
  payments,          \* id and status of the payment records created
  invoices,          \* paymentId and status of the invoice records created
  pc,                \* where each settle handler stands
  req,               \* the validated payload of each settle handler
  snap,              \* the order lines each settle handler read (by id)
  pay,               \* the payment object of each settle handler
  kitchen,           \* each send-to-kitchen handler: pc, mesa and ticket
  checkout,          \* the /api/complete-payment handler: pc, payload, lines
  probe,             \* a direct call of a PaymentService method
  deployment,        \* which of the two routes files the server registers
  cachedProducts,    \* ids of the products fetchMenuFromN8n answers with
  last               \* the response sent last, by any handler

vars == <<heap, nextId, orderItems, tables, idempotencyCache, payments,
          invoices, pc, req, snap, pay, kitchen, checkout, probe, deployment,
          cachedProducts, last>>

ItemIds == 1..MaxItems

\* An id no line was created with yet, and a line that was deleted and that
\* no handler still holds.
FreeLine == [productId |-> "", quantity |-> 0, mesaId |-> 0]

NoReq == [tableId |-> 0, paymentMethod |-> "", tip |-> 0, discount |-> 0,
          discountType |-> "", cashReceived |-> NoCash,
          datafonoTransactionId |-> Undef, datafonoType |-> Undef,
          qrReference |-> Undef]

NoKey == <<0, "", 0, 0, NoCash, Undef, Undef>>

\* A response: the operation and the HTTP status; for a settle the mesa of
\* the request; for a ledger call whether the line it named belongs to
\* another mesa, and the tableStatusChanged hint of POST /api/order-items;
\* for a settle that went through the commit, the request's cache key; for
\* a successful settle the amount and payment id of the body.
Response(op, code) ==
  [op |-> op, code |-> code, mesa |-> 0, mismatch |-> FALSE,
   tableStatusChanged |-> FALSE, key |-> NoKey, amount |-> 0,
   paymentId |-> "", errors |-> <<>>]

\* The answers of POST /api/payments/complete-colombian that carry no data:
\* 400 for an empty order and for a failed validation, whose error message
\* (errors) the callers fill in.
SettleError(code, mesa) == [Response("settle", code) EXCEPT !.mesa = mesa]

\* ------------------------------------------------------------ N8nStorage
\* N8nStorage.getProduct over the catalog snapshot: TRUE when found.
getProduct(id) == id \in cachedProducts

\* A ledger read that does not filter by mesa.
getOrderItemsEveryMesa(items, hp, mesaId) == items

\* N8nStorage.getOrderItems: the live lines of one mesa.
getOrderItems(items, hp, mesaId) == {i \in items : hp[i].mesaId = mesaId}

\* N8nStorage.createOrderItem: the new object (quantity defaults to 1 in
\* the schema; the clients of this model always send one).
createOrderItem(productId, quantity, mesaId) ==
  [productId |-> productId, quantity |-> quantity, mesaId |-> mesaId]

\* N8nStorage.updateOrderItemQuantity: the heap after the call, and what the
\* method returns (the object under that id, whatever its mesa).
updateOrderItemQuantity(items, hp, id, quantity, mesaId) ==
  [heap |-> IF id \in items /\ hp[id].mesaId = mesaId
            THEN [hp EXCEPT ![id].quantity = quantity]
            ELSE hp,
   found |-> id \in items]

\* N8nStorage.deleteOrderItem: the keys after the call and the boolean.
deleteOrderItem(items, hp, id, mesaId) ==
  IF id \in items /\ hp[id].mesaId = mesaId
  THEN [items |-> items \ {id}, ok |-> TRUE]
  ELSE [items |-> items, ok |-> FALSE]

\* A clear that forgets the mesa filter and empties the whole map.
clearOrderItemsEveryMesa(items, hp, mesaId) == {}

\* N8nStorage.clearOrderItems: the keys after the call.
clearOrderItems(items, hp, mesaId) ==
  items \ {i \in items : hp[i].mesaId = mesaId}

\* A registry that stores a status for an id it does not know.
updateTableStatusUpsert(tb, id, status) ==
  [tables |-> [t \in DOMAIN tb \cup {id} |->
                 IF t = id THEN status ELSE tb[t]],
   found |-> id \in DOMAIN tb]

\* A registry that looks the table up and forgets to store the new status.
updateTableStatusNotStored(tb, id, status) ==
  [tables |-> tb, found |-> id \in DOMAIN tb]

\* N8nStorage.updateTableStatus: the registry after the call, and whether a
\* table was found.
updateTableStatus(tb, id, status) ==
  IF id \in DOMAIN tb
  THEN [tables |-> [tb EXCEPT ![id] = status], found |-> TRUE]
  ELSE [tables |-> tb, found |-> FALSE]

\* String.toLowerCase on the statuses of this model.
toLowerCase(status) ==
  CASE status = "Reservada" -> "reservada"
    [] status = "OCUPADA" -> "ocupada"
    [] OTHER -> status

\* A normalisation that passes the status on as it came.
normalizeTableStatusRaw(status) == status

\* N8nStorage.normalizeTableStatus: Spanish or English to English, anything
\* else to available.
normalizeTableStatus(status) ==
  LET lower == toLowerCase(status)
  IN CASE lower \in {"disponible", "available"} -> "available"
       [] lower \in {"ocupada", "occupied"} -> "occupied"
       [] lower \in {"reservada", "reserved"} -> "reserved"
       [] OTHER -> "available"

\* The forEach of N8nStorage.getTables over the array the provider sent:
\* a known table takes the normalised status of its entry, an entry
\* without status keeps the status the table has, an unknown id is skipped.
RECURSIVE syncTables(_, _)
syncTables(tb, data) ==
  IF data = <<>> THEN tb
  ELSE LET n8nTable == Head(data)
           rawStatus == IF n8nTable.status = Undef
                        THEN tb[n8nTable.id] ELSE n8nTable.status
       IN syncTables(IF n8nTable.id \in DOMAIN tb
                     THEN [tb EXCEPT ![n8nTable.id] =
                                        normalizeTableStatus(rawStatus)]
                     ELSE tb,
                     Tail(data))

\* Objects that are neither in the map nor held by a handler are garbage:
\* their slot is wiped so that equal program states are equal model states.
Sweep(hp, keep) == [i \in ItemIds |-> IF i \in keep THEN hp[i] ELSE FreeLine]

\* The sweep as a handler other than /api/complete-payment sees it: sn are
\* the lines the settle handlers hold after the step.
Collect(hp, items, sn) ==
  Sweep(hp, items \cup UNION {sn[h] : h \in DOMAIN sn} \cup checkout.snap)

\* ------------------------------------------------------------- requests
\* tip, discount and discountType a client sends.
Pricings == {<<0, 0, "percentage">>, <<5000, 10000, "fixed">>,
             <<5000, 10000, "percentage">>}

\* paymentMethod with cashReceived, datafonoTransactionId, datafonoType and
\* qrReference, as a client sends them.
MethodData == {<<"efectivo", 200000, Undef, Undef, Undef>>,
               <<"efectivo", 50000, Undef, Undef, Undef>>,
               <<"efectivo", NoCash, Undef, Undef, Undef>>,
               <<"datafono_debito", NoCash, "TX1", "debito", Undef>>,
               <<"datafono_debito", NoCash, Undef, Undef, Undef>>,
               <<"qr_bancolombia", NoCash, Undef, Undef, "QR1">>,
               <<"qr_bancolombia", NoCash, Undef, Undef, Undef>>}

\* The payloads completePaymentColombianSchema accepts, less the declared
\* subtotal and impoconsumo, which the handler never reads.
Requests ==
  {[tableId |-> t, paymentMethod |-> m[1], tip |-> p[1], discount |-> p[2],
    discountType |-> p[3], cashReceived |-> m[2],
    datafonoTransactionId |-> m[3], datafonoType |-> m[4],
    qrReference |-> m[5]] : t \in TableIds, p \in Pricings, m \in MethodData}

\* The payloads the clients of the interleaved runs send: cash that covers
\* the bill with a fixed discount and a tip, cash that does not cover any
\* bill, and a QR payment with a percentage discount.
SettleRequests ==
  {r \in Requests :
     \/ /\ r.paymentMethod = "efectivo" /\ r.cashReceived = 200000
        /\ r.discountType = "fixed"
     \/ /\ r.paymentMethod = "efectivo" /\ r.cashReceived = 50000
        /\ r.discount = 0
     \/ /\ r.paymentMethod = "qr_bancolombia" /\ r.qrReference = "QR1"
        /\ r.discountType = "percentage" /\ r.discount > 0}

\* routes.ts cacheKey: table, method and the JSON of tip, discount,
\* cashReceived, datafonoTransactionId and qrReference.
cacheKey(r) ==
  <<r.tableId, r.paymentMethod, r.tip, r.discount, r.cashReceived,
    r.datafonoTransactionId, r.qrReference>>

\* ----------------------------------------------------------------- Init
\* No /api/complete-payment request in flight.
NoCheckout == [pc |-> "idle", req |-> <<>>, snap |-> {}, total |-> 0]

\* No PaymentService method called directly.
NoProbe == [args |-> <<>>, calls |-> 0, result |-> <<>>]

\* The two routes files: the one that keeps the order after a dispatch and
\* has the settlement routes, and the one that clears it.
Deployments == {"retaining", "clearing"}

\* The storage and the handlers after construction.
Constructed ==
  /\ heap = [i \in ItemIds |-> FreeLine]
  /\ nextId = 1
  /\ orderItems = {}
  /\ tables = [t \in TableIds |-> "available"]
  /\ idempotencyCache = <<>>
  /\ payments = <<>>
  /\ invoices = <<>>
  /\ pc = [h \in Handlers |-> "idle"]
  /\ req = [h \in Handlers |-> NoReq]
  /\ snap = [h \in Handlers |-> {}]
  /\ pay = [h \in Handlers |-> NoPayment]
  /\ kitchen = [k \in Dispatchers |-> [pc |-> "idle", mesa |-> 0, productos |-> {}]]
  /\ checkout = NoCheckout
  /\ cachedProducts = ProductIds
  /\ last = Response("", 0)

\* The server of the routes file with the settlement routes, started.
Started == Constructed /\ deployment = "retaining"

Init == Started /\ probe = NoProbe

settleVars == <<idempotencyCache, payments, invoices, pc, req, snap, pay,
                kitchen, checkout, probe, deployment,
                cachedProducts>>

\* --------------------------------------------------------- Order Ledger
\* POST /api/order-items, routes.ts 120-165.  The product lookup comes
\* first; the ledger read, the status change and the creation of the line
\* follow it without an await of the network.  nextId <= MaxItems is the
\* bound of the run on order lines, not a condition of the code.
Add(t, p, q) ==
  IF ~getProduct(p)
  THEN /\ last' = Response("add", 404)
       /\ UNCHANGED <<heap, nextId, orderItems, tables, settleVars>>
  ELSE /\ nextId <= MaxItems
       /\ LET isFirstItem == getOrderItems(orderItems, heap, t) = {}
              changed == isFirstItem /\ t \in DOMAIN tables
                           /\ tables[t] = "available"
          IN /\ tables' = IF changed
                          THEN updateTableStatus(tables, t, "occupied").tables
                          ELSE tables
             /\ heap' = [heap EXCEPT ![nextId] = createOrderItem(p, q, t)]
             /\ orderItems' = orderItems \cup {nextId}
             /\ nextId' = nextId + 1
             /\ last' = [Response("add", 201)
                           EXCEPT !.tableStatusChanged = changed]
       /\ UNCHANGED settleVars

\* PUT /api/order-items/:id.
SetQuantity(id, q, t) ==
  LET mismatch == id \in orderItems /\ heap[id].mesaId # t
      r == updateOrderItemQuantity(orderItems, heap, id, q, t)
  IN IF q < 1
     THEN /\ last' = [Response("setQuantity", 400)
                        EXCEPT !.mismatch = mismatch]
          /\ UNCHANGED <<heap, nextId, orderItems, tables, settleVars>>
     ELSE /\ heap' = r.heap
          /\ last' = [(IF ~r.found \/ ~getProduct(heap[id].productId)
                       THEN Response("setQuantity", 404)
                       ELSE Response("setQuantity", 200))
                        EXCEPT !.mismatch = mismatch]
          /\ UNCHANGED <<nextId, orderItems, tables, settleVars>>

\* DELETE /api/order-items/:id.
Remove(id, t) ==
  LET mismatch == id \in orderItems /\ heap[id].mesaId # t
      r == deleteOrderItem(orderItems, heap, id, t)
  IN /\ orderItems' = r.items
     /\ heap' = Collect(heap, r.items, snap)
     /\ last' = [(IF r.ok THEN Response("remove", 204)
                  ELSE Response("remove", 404))
                   EXCEPT !.mismatch = mismatch]
     /\ UNCHANGED <<nextId, tables, settleVars>>

\* ------------------------------------------------------- Table Registry
\* PUT /api/tables/:id/status.
SetStatus(t, s) ==
  LET r == updateTableStatus(tables, t, s)
  IN /\ tables' = IF s \in validStatuses THEN r.tables ELSE tables
     /\ last' = IF s \notin validStatuses
                THEN Response("setStatus", 400)
                ELSE IF r.found THEN Response("setStatus", 200)
                ELSE Response("setStatus", 404)
     /\ UNCHANGED <<heap, nextId, orderItems, settleVars>>

\* What the provider of table statuses answers to GET in getTables: nothing
\* usable (no endpoint answers, or not an array), or an array of entries.
NoTablesData == <<>>
RawStatuses == {"ocupada", "Reservada", "available", "sucia", Undef}
TablesData ==
  {NoTablesData}
    \cup {<<[id |-> i, status |-> st]>> :
            i \in TableIds \cup {UnknownTable}, st \in RawStatuses}
    \cup {<<[id |-> 1, status |-> "ocupada"],
            [id |-> 2, status |-> "Reservada"]>>}

\* GET /api/tables: getTables fetches the statuses from the provider,
\* writes them into the registry and answers the registry.
ListTables(data) ==
  /\ tables' = syncTables(tables, data)
  /\ last' = Response("listTables", 200)
  /\ UNCHANGED <<heap, nextId, orderItems, settleVars>>

\* GET /api/tables/:id.
GetTable(t) ==
  /\ last' = IF t \in DOMAIN tables THEN Response("getTable", 200)
             ELSE Response("getTable", 404)
  /\ UNCHANGED <<heap, nextId, orderItems, tables, settleVars>>

\* ------------------------------------------------ Settlement Coordinator
\* The loop of routes.ts 455-468: quantity times catalog price over the
\* lines the handler read, a line whose product is not found being skipped.
\* The quantity is read from the object when the loop runs.
RECURSIVE serverSubtotal(_, _)
serverSubtotal(ids, hp) ==
  IF ids = {} THEN 0
  ELSE LET i == CHOOSE x \in ids : TRUE
       IN (IF getProduct(hp[i].productId)
           THEN hp[i].quantity * Price(hp[i].productId) ELSE 0)
          + serverSubtotal(ids \ {i}, hp)

\* The ColombianPaymentData the route hands to PaymentService: the request
\* with the server's subtotal.
paymentData(r, subtotal) ==
  [tableId |-> r.tableId, paymentMethod |-> r.paymentMethod,
   subtotal |-> subtotal, tip |-> r.tip, discount |-> r.discount,
   discountType |-> r.discountType, cashReceived |-> r.cashReceived,
   datafonoTransactionId |-> r.datafonoTransactionId,
   datafonoType |-> r.datafonoType, qrReference |-> r.qrReference]

\* crypto.randomUUID(): a value no earlier call returned.
randomUUID(n) == "uuid-" \o ToString(n)

\* routes.ts 528: the workflow's execution id, or a fresh uuid without one.
paymentId(executionId, n) ==
  IF executionId # NoExec THEN executionId ELSE randomUUID(n)

\* The handler with invoiceWorkflowResponse declared before its try block.
invoiceWorkflowResponseDeclaredOutside == TRUE

\* routes.ts 553-571 and 625: invoiceWorkflowResponse is a const of the try
\* block and is not in scope where the response is built.
invoiceWorkflowResponseInScope == FALSE

\* Settle handlers that are past the ledger read and have not yet created
\* their payment record.
Pending == {h \in Handlers : pc[h] \in {"price", "pay"}}

\* Handler h answers and ends: its locals are dropped.
Leave(h, response) ==
  /\ pc' = [pc EXCEPT ![h] = "idle"]
  /\ req' = [req EXCEPT ![h] = NoReq]
  /\ snap' = [snap EXCEPT ![h] = {}]
  /\ pay' = [pay EXCEPT ![h] = NoPayment]
  /\ last' = response

\* routes.ts 419-458: parse, idempotency check, ledger read; the handler
\* then awaits the first product lookup.  The second conjunct is the bound
\* of the run on payment records, not a condition of the code.
SettleStart(h, r) ==
  /\ pc[h] = "idle"
  /\ Len(payments) + Cardinality(Pending) < MaxPayments
  /\ LET items == getOrderItems(orderItems, heap, r.tableId)
     IN IF cacheKey(r) \in DOMAIN idempotencyCache
        THEN Leave(h, idempotencyCache[cacheKey(r)])
        ELSE IF items = {}
        THEN Leave(h, [SettleError(400, r.tableId)
                         EXCEPT !.errors = <<"No order items found">>])
        ELSE /\ pc' = [pc EXCEPT ![h] = "price"]
             /\ req' = [req EXCEPT ![h] = r]
             /\ snap' = [snap EXCEPT ![h] = items]
             /\ UNCHANGED <<pay, last>>
  /\ UNCHANGED <<cachedProducts, deployment, checkout, probe, heap, nextId, orderItems, tables, idempotencyCache, payments,
                 invoices, kitchen>>

\* A handler that clears the order of the table when validation fails.
SettlePriceClearing(h) ==
  /\ pc[h] = "price"
  /\ LET processed == processColombianPayment(
                        paymentData(req[h], serverSubtotal(snap[h], heap)))
         cleared == clearOrderItems(orderItems, heap, req[h].tableId)
     IN IF ~processed.ok
        THEN /\ Leave(h, [SettleError(400, req[h].tableId)
                              EXCEPT !.errors = processed.errors])
             /\ orderItems' = cleared
             /\ heap' = Collect(heap, cleared, snap')
        ELSE /\ pc' = [pc EXCEPT ![h] = "pay"]
             /\ pay' = [pay EXCEPT ![h] = processed.payment]
             /\ UNCHANGED <<req, snap, heap, last, orderItems>>
  /\ UNCHANGED <<cachedProducts, deployment, checkout, probe, nextId, tables, idempotencyCache, payments, invoices,
                 kitchen>>

\* routes.ts 458-516: the pricing loop, PaymentService validation, and the
\* call of the payment workflow, which the handler awaits.
SettlePrice(h) ==
  /\ pc[h] = "price"
  /\ LET processed == processColombianPayment(
                        paymentData(req[h], serverSubtotal(snap[h], heap)))
     IN IF ~processed.ok
        THEN /\ Leave(h, [SettleError(400, req[h].tableId)
                              EXCEPT !.errors = processed.errors])
             /\ heap' = Collect(heap, orderItems, snap')
        ELSE /\ pc' = [pc EXCEPT ![h] = "pay"]
             /\ pay' = [pay EXCEPT ![h] = processed.payment]
             /\ UNCHANGED <<req, snap, heap, last>>
  /\ UNCHANGED <<cachedProducts, deployment, checkout, probe, nextId, orderItems, tables, idempotencyCache, payments,
                 invoices, kitchen>>

\* A handler for which a failed payment workflow is fatal: it answers 500
\* and creates no record.
SettlePayFatal(h, e) ==
  /\ pc[h] = "pay"
  /\ IF e = NoExec
     THEN /\ Leave(h, SettleError(500, req[h].tableId))
          /\ heap' = Collect(heap, orderItems, snap')
          /\ UNCHANGED <<payments, invoices>>
     ELSE /\ payments' = Append(payments, [id |-> e, status |-> pay[h].status])
          /\ invoices' = Append(invoices, [paymentId |-> e,
                                           dianStatus |-> "pending"])
          /\ pay' = [pay EXCEPT ![h].id = e]
          /\ pc' = [pc EXCEPT ![h] = "invoice"]
          /\ UNCHANGED <<heap, req, snap, last>>
  /\ UNCHANGED <<cachedProducts, deployment, checkout, probe, nextId, orderItems, tables, idempotencyCache,
                 kitchen>>

\* routes.ts 517-562: the payment workflow answered with execution id e, or
\* failed (NoExec); the payment and invoice records are created and the
\* DIAN workflow is called, which the handler awaits.
SettlePay(h, e) ==
  /\ pc[h] = "pay"
  /\ LET createdPayment ==
           [pay[h] EXCEPT !.id = paymentId(e, Len(payments) + 1)]
         createdInvoice == generateBasicInvoice(createdPayment)
     IN /\ payments' = Append(payments, [id |-> createdPayment.id,
                                         status |-> createdPayment.status])
        /\ invoices' = Append(invoices,
                              [paymentId |-> createdInvoice.paymentId,
                               dianStatus |-> createdInvoice.dianStatus])
        /\ pay' = [pay EXCEPT ![h] = createdPayment]
  /\ pc' = [pc EXCEPT ![h] = "invoice"]
  /\ UNCHANGED <<cachedProducts, deployment, checkout, probe, heap, nextId, orderItems, tables, idempotencyCache, req,
                 snap, kitchen, last>>

\* routes.ts 563-652: the DIAN workflow answered, and then the analytics
\* workflow (no exception leaves either try block, and nothing is touched
\* between the two awaits); the ledger of the table is cleared, the table is
\* freed, and the response is built, which throws where it reads
\* invoiceWorkflowResponse; the catch answers 500.
SettleCommit(h) ==
  /\ pc[h] = "invoice"
  /\ LET t == req[h].tableId
         cleared == clearOrderItems(orderItems, heap, t)
         responseData == [Response("settle", 200)
                            EXCEPT !.mesa = t, !.key = cacheKey(req[h]),
                                   !.amount = pay[h].amount,
                                   !.paymentId = pay[h].id]
     IN /\ orderItems' = cleared
        /\ tables' = updateTableStatus(tables, t, "available").tables
        /\ IF invoiceWorkflowResponseInScope
           THEN /\ idempotencyCache' =
                     (cacheKey(req[h]) :> responseData) @@ idempotencyCache
                /\ Leave(h, responseData)
           ELSE /\ Leave(h, [Response("settle", 500)
                               EXCEPT !.mesa = t, !.key = cacheKey(req[h])])
                /\ UNCHANGED idempotencyCache
        /\ heap' = Collect(heap, cleared, snap')
  /\ UNCHANGED <<cachedProducts, deployment, checkout, probe, nextId, payments, invoices, kitchen>>

\* A commit that frees the table where it should clear the ledger.
CommitFreeFirst(h) ==
  /\ pc[h] = "invoice"
  /\ tables' = updateTableStatus(tables, req[h].tableId, "available").tables
  /\ pc' = [pc EXCEPT ![h] = "free"]
  /\ UNCHANGED <<cachedProducts, deployment, checkout, probe, heap, nextId, orderItems, idempotencyCache,
                 payments, invoices, req, snap, pay, kitchen, last>>

\* The stretch of SettleCommit statement by statement, each up to the await
\* of its storage call.  A handler is in one of these positions only while
\* its continuation is queued, before any other request is taken up.
\* routes.ts 563-586: the workflows answered; the ledger of the mesa is
\* cleared.
CommitClear(h) ==
  /\ pc[h] = "invoice"
  /\ LET cleared == clearOrderItems(orderItems, heap, req[h].tableId)
     IN /\ orderItems' = cleared
        /\ heap' = Collect(heap, cleared, snap)
  /\ pc' = [pc EXCEPT ![h] = "free"]
  /\ UNCHANGED <<cachedProducts, deployment, checkout, probe, nextId, tables, idempotencyCache, payments,
                 invoices, req, snap, pay, kitchen, last>>

\* routes.ts 587: the table is freed.
CommitFree(h) ==
  /\ pc[h] = "free"
  /\ tables' = updateTableStatus(tables, req[h].tableId, "available").tables
  /\ pc' = [pc EXCEPT ![h] = "respond"]
  /\ UNCHANGED <<cachedProducts, deployment, checkout, probe, heap, nextId, orderItems, idempotencyCache,
                 payments, invoices, req, snap, pay, kitchen, last>>

\* routes.ts 589-652: the response is built, cached and sent; building it
\* throws where it reads invoiceWorkflowResponse, and the catch answers 500.
CommitRespond(h) ==
  /\ pc[h] = "respond"
  /\ LET t == req[h].tableId
         responseData == [Response("settle", 200)
                            EXCEPT !.mesa = t, !.key = cacheKey(req[h]),
                                   !.amount = pay[h].amount,
                                   !.paymentId = pay[h].id]
     IN IF invoiceWorkflowResponseInScope
        THEN /\ idempotencyCache' =
                  (cacheKey(req[h]) :> responseData) @@ idempotencyCache
             /\ Leave(h, responseData)
        ELSE /\ Leave(h, [Response("settle", 500)
                            EXCEPT !.mesa = t, !.key = cacheKey(req[h])])
             /\ UNCHANGED idempotencyCache
  /\ heap' = Collect(heap, orderItems, snap')
  /\ UNCHANGED <<cachedProducts, deployment, checkout, probe, nextId, orderItems, tables, payments,
                 invoices, kitchen>>

\* ------------------------------------------------------ Kitchen Dispatch
\* POST /api/orders/send-to-kitchen, routes.ts 228-277: the ledger read and
\* the POST of the ticket to the webhook, which the handler awaits.  The
\* webhook URL is configured; catalog ids are numeric.
KitchenStart(k, t) ==
  /\ kitchen[k].pc = "idle"
  /\ IF getOrderItems(orderItems, heap, t) = {}
     THEN /\ last' = Response("sendToKitchen", 400)
          /\ UNCHANGED kitchen
     ELSE /\ kitchen' = [kitchen EXCEPT ![k] = [pc |-> "fetch", mesa |-> t,
                                            productos |->
                                              getOrderItems(orderItems, heap, t)]]
          /\ UNCHANGED last
  /\ UNCHANGED <<cachedProducts, deployment, checkout, probe, heap, nextId, orderItems, tables, idempotencyCache, payments,
                 invoices, pc, req, snap, pay>>

\* A dispatch whose POST has no abort timer: it waits for the webhook's
\* answer and nothing else ends it.
KitchenAnswerNoTimeout(k, outcome) ==
  /\ kitchen[k].pc = "fetch"
  /\ outcome # "abort"
  /\ LET t == kitchen[k].mesa
     IN /\ tables' = IF outcome = "ok"
                     THEN updateTableStatus(tables, t, "occupied").tables
                     ELSE tables
        /\ last' = CASE outcome = "ok" -> Response("sendToKitchen", 200)
                     [] OTHER -> Response("sendToKitchen", 502)
  /\ kitchen' = [kitchen EXCEPT ![k] = [pc |-> "idle", mesa |-> 0,
                                        productos |-> {}]]
  /\ UNCHANGED <<cachedProducts, deployment, checkout, probe, heap, nextId, orderItems,
                 idempotencyCache, payments, invoices, pc, req, snap, pay>>

\* A dispatch that answers success without touching the table.
KitchenAnswerNoStatus(k, outcome) ==
  /\ kitchen[k].pc = "fetch"
  /\ last' = CASE outcome = "ok" -> Response("sendToKitchen", 200)
                [] outcome = "error" -> Response("sendToKitchen", 502)
                [] OTHER -> Response("sendToKitchen", 500)
  /\ kitchen' = [kitchen EXCEPT ![k] = [pc |-> "idle", mesa |-> 0, productos |-> {}]]
  /\ UNCHANGED <<cachedProducts, deployment, checkout, probe, heap, nextId, orderItems,
                 tables, idempotencyCache, payments, invoices, pc, req, snap,
                 pay>>

\* routes.ts 279-348: the webhook answered or the request was aborted; on
\* success the table is marked occupied and the order lines are kept.
KitchenAnswer(k, outcome) ==
  /\ kitchen[k].pc = "fetch"
  /\ LET t == kitchen[k].mesa
     IN /\ tables' = IF outcome = "ok"
                     THEN updateTableStatus(tables, t, "occupied").tables
                     ELSE tables
        /\ last' = CASE outcome = "ok" -> Response("sendToKitchen", 200)
                     [] outcome = "error" -> Response("sendToKitchen", 502)
                     [] OTHER -> Response("sendToKitchen", 500)
  /\ kitchen' = [kitchen EXCEPT ![k] = [pc |-> "idle", mesa |-> 0, productos |-> {}]]
  /\ UNCHANGED <<cachedProducts, deployment, checkout, probe, heap, nextId, orderItems, idempotencyCache, payments,
                 invoices, pc, req, snap, pay>>

\* The second routes file, routes.ts 1323-1394: on success the order of the
\* mesa is cleared and the table is marked occupied.
KitchenAnswerClearing(k, outcome) ==
  /\ kitchen[k].pc = "fetch"
  /\ LET t == kitchen[k].mesa
         cleared == IF outcome = "ok"
                    THEN clearOrderItems(orderItems, heap, t)
                    ELSE orderItems
     IN /\ orderItems' = cleared
        /\ heap' = Collect(heap, cleared, snap)
        /\ tables' = IF outcome = "ok"
                     THEN updateTableStatus(tables, t, "occupied").tables
                     ELSE tables
        /\ last' = CASE outcome = "ok" -> Response("sendToKitchen", 200)
                     [] outcome = "error" -> Response("sendToKitchen", 502)
                     [] OTHER -> Response("sendToKitchen", 500)
  /\ kitchen' = [kitchen EXCEPT ![k] = [pc |-> "idle", mesa |-> 0, productos |-> {}]]
  /\ UNCHANGED <<cachedProducts, deployment, checkout, probe, nextId, idempotencyCache,
                 payments, invoices, pc, req, snap, pay>>

\* POST /api/order-items of the second routes file, routes.ts 1186-1209:
\* the line is created and the table is left as it is.
AddPlain(t, p, q) ==
  IF ~getProduct(p)
  THEN /\ last' = Response("add", 404)
       /\ UNCHANGED <<heap, nextId, orderItems, tables, settleVars>>
  ELSE /\ nextId <= MaxItems
       /\ heap' = [heap EXCEPT ![nextId] = createOrderItem(p, q, t)]
       /\ orderItems' = orderItems \cup {nextId}
       /\ nextId' = nextId + 1
       /\ last' = Response("add", 201)
       /\ UNCHANGED <<tables, settleVars>>

\* ------------------------------------------------- /api/complete-payment
\* The payloads the clients of POST /api/complete-payment send: cash that
\* covers the bill, cash that covers no priced bill, no cash, a card
\* payment with and without a payment intent, and an unknown method.
CheckoutRequests ==
  {[tableId |-> t, paymentMethod |-> m[1], cashReceived |-> m[2],
    tip |-> m[3], discount |-> m[4], discountType |-> m[5],
    paymentIntentId |-> m[6]] :
     t \in TableIds,
     m \in {<<"cash", 200000, 5000, 10000, "fixed", Undef>>,
            <<"cash", 50000, 0, 0, "percentage", Undef>>,
            <<"cash", NoCash, 0, 0, "percentage", Undef>>,
            <<"card", NoCash, 0, 0, "percentage", "pi_1">>,
            <<"card", NoCash, 0, 0, "percentage", Undef>>,
            <<"check", NoCash, 0, 0, "percentage", Undef>>}}

\* What the verification of a payment intent with Stripe comes to: the
\* intent succeeded for this amount and table, or anything else.
StripeOutcomes == {"verified", "refused"}

\* routes.ts 761-770: the totals of /api/complete-payment.  A fixed
\* discount is taken as sent and the total is not rounded.
completePaymentTotals(subtotal, tip, discount, discountType) ==
  LET discountAmount == IF discountType = "percentage"
                        THEN percentageDiscount(subtotal, discount)
                        ELSE discount
      finalSubtotal == Max(0, subtotal - discountAmount)
      tax == RoundDiv(finalSubtotal * 8, 1000) * 10
      tipAmount == round2(tip)
  IN [discount |-> discountAmount, tax |-> tax, tip |-> tipAmount,
      finalTotal |-> finalSubtotal + tax + tipAmount]

\* The handler answers and ends: its locals are dropped.
CheckoutLeave(response, items) ==
  /\ checkout' = NoCheckout
  /\ last' = response
  /\ heap' = Sweep(heap, items \cup UNION {snap[h] : h \in Handlers})

\* routes.ts 815-846: the order is cleared, the table is freed, and the
\* handler answers success with the amount.
CheckoutCommit(t, total) ==
  LET cleared == clearOrderItems(orderItems, heap, t)
  IN /\ orderItems' = cleared
     /\ tables' = updateTableStatus(tables, t, "available").tables
     /\ CheckoutLeave([Response("checkout", 200)
                         EXCEPT !.mesa = t, !.amount = total], cleared)

\* routes.ts 726-753: the checks of the payload and the ledger read; the
\* handler then awaits the first product lookup.
CheckoutStart(r) ==
  /\ checkout.pc = "idle"
  /\ LET items == getOrderItems(orderItems, heap, r.tableId)
     IN IF r.paymentMethod \notin {"cash", "card"} \/ items = {}
        THEN /\ last' = [Response("checkout", 400) EXCEPT !.mesa = r.tableId]
             /\ UNCHANGED checkout
        ELSE /\ checkout' = [pc |-> "price", req |-> r, snap |-> items,
                             total |-> 0]
             /\ UNCHANGED last
  /\ UNCHANGED <<heap, nextId, orderItems, tables, idempotencyCache, payments,
                 invoices, pc, req, snap, pay, kitchen, probe, deployment,
                cachedProducts>>

\* routes.ts 754-790: the pricing loop and the totals; a cash payment is
\* checked and committed, a card payment awaits Stripe.
CheckoutPrice ==
  /\ checkout.pc = "price"
  /\ LET r == checkout.req
         t == r.tableId
         totals == completePaymentTotals(serverSubtotal(checkout.snap, heap),
                                         r.tip, r.discount, r.discountType)
         refused == [Response("checkout", 400) EXCEPT !.mesa = t]
     IN IF r.paymentMethod = "cash"
        THEN IF r.cashReceived = NoCash \/ r.cashReceived = 0
                \/ r.cashReceived < totals.finalTotal
             THEN /\ CheckoutLeave(refused, orderItems)
                  /\ UNCHANGED <<orderItems, tables>>
             ELSE CheckoutCommit(t, totals.finalTotal)
        ELSE IF r.paymentIntentId = Undef
             THEN /\ CheckoutLeave(refused, orderItems)
                  /\ UNCHANGED <<orderItems, tables>>
             ELSE /\ checkout' = [checkout EXCEPT !.pc = "stripe",
                                                  !.total = totals.finalTotal]
                  /\ UNCHANGED <<heap, orderItems, tables, last>>
  /\ UNCHANGED <<nextId, idempotencyCache, payments, invoices, pc, req, snap,
                 pay, kitchen, probe, deployment,
                cachedProducts>>

\* routes.ts 791-846: Stripe answered; a verified card payment commits.
CheckoutVerify(o) ==
  /\ checkout.pc = "stripe"
  /\ IF o = "verified"
     THEN CheckoutCommit(checkout.req.tableId, checkout.total)
     ELSE /\ CheckoutLeave([Response("checkout", 400)
                              EXCEPT !.mesa = checkout.req.tableId], orderItems)
          /\ UNCHANGED <<orderItems, tables>>
  /\ UNCHANGED <<nextId, idempotencyCache, payments, invoices, pc, req, snap,
                 pay, kitchen, probe, deployment,
                cachedProducts>>

\* ------------------------------------------------------------------ Next
\* Every operation, interleaved at the awaits; one settle in flight at a
\* time.
Next ==
  \/ \E t \in TableIds, p \in ProductIds \cup {UnknownProduct},
        q \in AddQuantities : Add(t, p, q)
  \/ \E id \in ItemIds, q \in PutQuantities, t \in TableIds :
        SetQuantity(id, q, t)
  \/ \E id \in ItemIds, t \in TableIds : Remove(id, t)
  \/ \E t \in TableIds \cup {UnknownTable}, s \in SentStatuses :
        SetStatus(t, s)
  \/ \E h \in Solo, r \in SettleRequests : SettleStart(h, r)
  \/ \E h \in Solo : SettlePrice(h)
  \/ \E h \in Solo, e \in ExecIds : SettlePay(h, e)
  \/ \E h \in Solo : SettleCommit(h)
  \/ \E k \in Kitchens, t \in TableIds : KitchenStart(k, t)
  \/ \E k \in Kitchens, o \in KitchenOutcomes : KitchenAnswer(k, o)

Spec == Init /\ [][Next]_vars

\* Two settle handlers in flight over the same table, with the orders that
\* feed them.
RaceRequests == {r \in SettleRequests : r.tableId = 1}

NextRace ==
  \/ \E p \in ProductIds, q \in AddQuantities : Add(1, p, q)
  \/ \E h \in Handlers, r \in RaceRequests : SettleStart(h, r)
  \/ \E h \in Handlers : SettlePrice(h)
  \/ \E h \in Handlers, e \in ExecIds : SettlePay(h, e)
  \/ \E h \in Handlers : SettleCommit(h)

SpecRace == Init /\ [][NextRace]_vars

\* One settle handler followed statement by statement through its commit;
\* no request is taken up while the handler's continuation is queued.
NextSteps ==
  \/ /\ \A h \in Solo : pc[h] \notin {"free", "respond"}
     /\ \E t \in TableIds, p \in ProductIds, q \in AddQuantities : Add(t, p, q)
  \/ \E h \in Solo, r \in SettleRequests : SettleStart(h, r)
  \/ \E h \in Solo : SettlePrice(h)
  \/ \E h \in Solo, e \in ExecIds : SettlePay(h, e)
  \/ \E h \in Solo : CommitClear(h)
  \/ \E h \in Solo : CommitFree(h)
  \/ \E h \in Solo : CommitRespond(h)

SpecSteps == Init /\ [][NextSteps]_vars

\* ---------------------------------------- PaymentService called directly
\* The ColombianPaymentData that validateColombianPayment checks for: a
\* table id that is missing (0) or given, a subtotal of an order with a
\* negative, zero or positive quantity, the four methods and one that is
\* none of them, cash missing or given, and the ids of terminal and QR
\* missing, blank or given.
ValidateInputs ==
  {[tableId |-> t, paymentMethod |-> m, subtotal |-> sub, tip |-> 0,
    discount |-> 0, discountType |-> "percentage", cashReceived |-> c,
    datafonoTransactionId |-> x, datafonoType |-> k, qrReference |-> q] :
     t \in {0, 1}, m \in PaymentMethods \cup {"cheque"},
     sub \in {-50000, 0, 50000}, c \in {NoCash, 50000, 200000},
     x \in {Undef, "", "TX1"}, k \in {Undef, "debito"},
     q \in {Undef, "", "QR1"}}

InitValidate ==
  /\ Started
  /\ probe \in {[args |-> pd, calls |-> 0, result |-> <<>>] :
                  pd \in ValidateInputs}

\* A call of PaymentService.validateColombianPayment.
Validate ==
  /\ probe.calls < MaxCalls
  /\ probe.args \in ValidateInputs
  /\ probe' = [probe EXCEPT
                 !.calls = @ + 1,
                 !.result = [op |-> "validate",
                             out |-> validateColombianPayment(probe.args)]]
  /\ UNCHANGED <<heap, nextId, orderItems, tables, idempotencyCache, payments,
                 invoices, pc, req, snap, pay, kitchen, checkout, deployment,
                 cachedProducts, last>>

\* A call of PaymentService.processColombianPayment.
Process ==
  /\ probe.calls < MaxCalls
  /\ probe.args \in ValidateInputs
  /\ probe' = [probe EXCEPT
                 !.calls = @ + 1,
                 !.result = [op |-> "process",
                             out |-> processColombianPayment(probe.args)]]
  /\ UNCHANGED <<heap, nextId, orderItems, tables, idempotencyCache, payments,
                 invoices, pc, req, snap, pay, kitchen, checkout, deployment,
                 cachedProducts, last>>

NextValidate == Validate \/ Process

SpecValidate == InitValidate /\ [][NextValidate]_vars

\* The arguments of the two pricing computations: subtotals in whole cents
\* (sums of quantity times catalog price), tips and discounts as a client
\* may send them, fractions of a cent included; a percentage above 100 and
\* a fixed discount above the subtotal are among them.
PricingInputs ==
  {[subtotal |-> sub, tip |-> tp, discount |-> d, discountType |-> ty] :
     sub \in {0, 10, 19990, 50000, 100000},
     tp \in {0, 4, 5, 1235, 5000},
     d \in {0, 3333, 10000, 100000, 150000},
     ty \in {"percentage", "fixed"}}

InitPricing ==
  /\ Started
  /\ probe \in {[args |-> a, calls |-> 0, result |-> <<>>] :
                  a \in PricingInputs}

\* A call of PaymentService.calculateTotals.
CalculateTotals ==
  /\ probe.calls < MaxCalls
  /\ LET a == probe.args
     IN probe' = [probe EXCEPT
                   !.calls = @ + 1,
                   !.result = [op |-> "calculateTotals",
                               out |-> calculateTotals(a.subtotal, a.tip,
                                                       a.discount,
                                                       a.discountType)]]
  /\ UNCHANGED <<heap, nextId, orderItems, tables, idempotencyCache, payments,
                 invoices, pc, req, snap, pay, kitchen, checkout, deployment,
                 cachedProducts, last>>

\* The totals of POST /api/complete-payment computed on the arguments.
CompletePaymentTotals ==
  /\ probe.calls < MaxCalls
  /\ LET a == probe.args
     IN probe' = [probe EXCEPT
                   !.calls = @ + 1,
                   !.result = [op |-> "completePayment",
                               out |-> completePaymentTotals(
                                         a.subtotal, a.tip, a.discount,
                                         a.discountType)]]
  /\ UNCHANGED <<heap, nextId, orderItems, tables, idempotencyCache, payments,
                 invoices, pc, req, snap, pay, kitchen, checkout, deployment,
                 cachedProducts, last>>

NextPricing == CalculateTotals \/ CompletePaymentTotals

SpecPricing == InitPricing /\ [][NextPricing]_vars

\* The requests that wait for a collaborator.  A collaborator may answer or
\* stay silent, so no answer is ever forced; what is forced is what the
\* process does by itself: the abort timer of each outbound call (routes.ts
\* 266-279, n8n-client.ts 86-96 and 119-124) and the continuation of a
\* handler whose awaited call has ended.
NextWaiting ==
  \/ \E t \in TableIds, p \in ProductIds : Add(t, p, 1)
  \/ \E h \in Solo, r \in SettleRequests : SettleStart(h, r)
  \/ \E h \in Solo : SettlePrice(h)
  \/ \E h \in Solo, e \in ExecIds : SettlePay(h, e)
  \/ \E h \in Solo : SettleCommit(h)
  \/ \E k \in Kitchens, t \in TableIds : KitchenStart(k, t)
  \/ \E k \in Kitchens, o \in KitchenOutcomes : KitchenAnswer(k, o)

TimersFire ==
  /\ \A h \in Solo :
       WF_vars(SettlePrice(h) \/ SettlePay(h, NoExec) \/ SettleCommit(h))
  /\ \A k \in Kitchens : WF_vars(KitchenAnswer(k, "abort"))

SpecWaiting == Init /\ [][NextWaiting]_vars /\ TimersFire

\* The menus the provider may answer with: one with a second product beside
\* the first, and one from which the first has been taken off.
Menus == {ProductIds \cup {"2"}, {"2"}}

\* GET /api/products, routes.ts 41-56, with the menu cache expired (part_010
\* 251-380): the provider answers the menu m, which replaces the cached
\* products.
FetchMenu(m) ==
  /\ cachedProducts' = m
  /\ last' = Response("products", 200)
  /\ UNCHANGED <<heap, nextId, orderItems, tables, idempotencyCache, payments,
                 invoices, pc, req, snap, pay, kitchen, checkout, probe,
                 deployment>>

\* Orders and their settlement while the menu is refreshed.
NextCatalog ==
  \/ \E t \in TableIds, p \in ProductIds \cup {"2"} : Add(t, p, 1)
  \/ \E m \in Menus : FetchMenu(m)
  \/ \E h \in Solo, r \in SettleRequests : SettleStart(h, r)
  \/ \E h \in Solo : SettlePrice(h)
  \/ \E h \in Solo, e \in ExecIds : SettlePay(h, e)
  \/ \E h \in Solo : SettleCommit(h)

SpecCatalog == Init /\ [][NextCatalog]_vars

\* A client that settles table 1 again and again with the same payment
\* method, tip, discount, cash received and references, between orders.
ReplayRequests ==
  {r \in Requests : /\ r.tableId = 1
                    /\ r.paymentMethod = "efectivo"
                    /\ r.cashReceived = 200000
                    /\ r.tip = 5000
                    /\ r.discount = 10000}

NextReplay ==
  \/ \E t \in TableIds, p \in ProductIds, q \in AddQuantities : Add(t, p, q)
  \/ \E h \in Solo, r \in ReplayRequests : SettleStart(h, r)
  \/ \E h \in Solo : SettlePrice(h)
  \/ \E h \in Solo, e \in ExecIds : SettlePay(h, e)
  \/ \E h \in Solo : SettleCommit(h)

SpecReplay == Init /\ [][NextReplay]_vars

\* Two settle handlers of table 1 whose payloads differ in discountType
\* only, with the orders that feed them.
NextFingerprint ==
  \/ \E p \in ProductIds, q \in AddQuantities : Add(1, p, q)
  \/ \E h \in Handlers, r \in ReplayRequests : SettleStart(h, r)
  \/ \E h \in Handlers : SettlePrice(h)
  \/ \E h \in Handlers, e \in ExecIds : SettlePay(h, e)
  \/ \E h \in Handlers : SettleCommit(h)

SpecFingerprint == Init /\ [][NextFingerprint]_vars

\* Either routes file with dispatches that overlap, the orders that feed
\* them and, where the file has it, the settlement that bills them.
InitKitchen ==
  /\ Constructed
  /\ probe = NoProbe
  /\ deployment \in Deployments

NextKitchen ==
  \/ /\ deployment = "retaining"
     /\ \E t \in TableIds, p \in ProductIds, q \in AddQuantities : Add(t, p, q)
  \/ /\ deployment = "clearing"
     /\ \E t \in TableIds, p \in ProductIds, q \in AddQuantities :
          AddPlain(t, p, q)
  \/ \E k \in Dispatchers, t \in TableIds : KitchenStart(k, t)
  \/ /\ deployment = "retaining"
     /\ \E k \in Dispatchers, o \in KitchenOutcomes : KitchenAnswer(k, o)
  \/ /\ deployment = "clearing"
     /\ \E k \in Dispatchers, o \in KitchenOutcomes :
          KitchenAnswerClearing(k, o)
  \/ /\ deployment = "retaining"
     /\ \/ \E h \in Solo, r \in SettleRequests : SettleStart(h, r)
        \/ \E h \in Solo : SettlePrice(h)
        \/ \E h \in Solo, e \in ExecIds : SettlePay(h, e)
        \/ \E h \in Solo : SettleCommit(h)

SpecKitchen == InitKitchen /\ [][NextKitchen]_vars

\* The table registry with every status a client may send, the reads of
\* the registry, and the orders that occupy tables.
AllSentStatuses == validStatuses \cup {"closed"}

NextTables ==
  \/ \E t \in TableIds, p \in ProductIds, q \in AddQuantities : Add(t, p, q)
  \/ \E t \in TableIds \cup {UnknownTable}, st \in AllSentStatuses :
        SetStatus(t, st)
  \/ \E data \in TablesData : ListTables(data)
  \/ \E t \in TableIds \cup {UnknownTable} : GetTable(t)

SpecTables == Init /\ [][NextTables]_vars

\* Both settlement routes, with the orders that feed them.
NextCheckout ==
  \/ \E t \in TableIds, p \in ProductIds, q \in AddQuantities : Add(t, p, q)
  \/ \E h \in Solo, r \in SettleRequests : SettleStart(h, r)
  \/ \E h \in Solo : SettlePrice(h)
  \/ \E h \in Solo, e \in ExecIds : SettlePay(h, e)
  \/ \E h \in Solo : SettleCommit(h)
  \/ \E r \in CheckoutRequests : CheckoutStart(r)
  \/ CheckoutPrice
  \/ \E o \in StripeOutcomes : CheckoutVerify(o)

SpecCheckout == Init /\ [][NextCheckout]_vars

\* ------------------------------------------------------------ properties
\* The order ledger of mesa t as a client reads it: the live lines with
\* their contents.
Lines(t) == {<<i, heap[i]>> : i \in getOrderItems(orderItems, heap, t)}

\* A step of settle handler h.
SettleStep(h) ==
  \/ \E r \in SettleRequests : SettleStart(h, r)
  \/ SettlePrice(h)
  \/ \E e \in ExecIds : SettlePay(h, e)
  \/ SettleCommit(h)

\* A step of an operation that was invoked with mesa t.
OperationOn(t) ==
  \/ \E p \in ProductIds \cup {UnknownProduct}, q \in AddQuantities :
        Add(t, p, q)
  \/ \E id \in ItemIds, q \in PutQuantities : SetQuantity(id, q, t)
  \/ \E id \in ItemIds : Remove(id, t)
  \/ \E s \in SentStatuses : SetStatus(t, s)
  \/ \E h \in Handlers, r \in SettleRequests :
        r.tableId = t /\ SettleStart(h, r)
  \/ \E h \in Handlers : req[h].tableId = t /\ SettleStep(h)
  \/ \E k \in Kitchens : KitchenStart(k, t)
  \/ \E k \in Kitchens, o \in KitchenOutcomes :
        kitchen[k].mesa = t /\ KitchenAnswer(k, o)

\* C1. Idempotent settle: a settle invoked again with the same fields right
\* after a settle that went through (nothing answered in between) returns
\* the result the first call returned, creates no further payment record
\* and ends at the idempotency check.
C1_ReplayReturnsFirstResult ==
  [][\A h \in Solo, r \in SettleRequests :
       (SettleStart(h, r) /\ last.op = "settle" /\ last.key = cacheKey(r))
         => (last' = last /\ payments' = payments /\ pc'[h] = "idle")]_vars

C4_MismatchIsNotFound ==
  [][\A id \in ItemIds, t \in TableIds :
       (id \in orderItems /\ heap[id].mesaId # t)
         => /\ \A q \in PutQuantities :
                 (q >= 1 /\ SetQuantity(id, q, t))
                   => /\ last'.code = 404
                      /\ id \in orderItems' /\ heap'[id] = heap[id]
            /\ Remove(id, t)
                 => /\ last'.code = 404
                    /\ id \in orderItems' /\ heap'[id] = heap[id]]_vars

\* C5. Cross-table frame: a step of an operation invoked with mesa t leaves
\* the lines and the status of every other mesa unchanged (a step that
\* changes the lines or the status of mesa u is no step of an operation
\* invoked with another mesa t).
C5_CrossTableFrame ==
  [][\A t \in TableIds, u \in TableIds :
       (u # t /\ (Lines(u)' # Lines(u) \/ tables'[u] # tables[u]))
         => ~OperationOn(t)]_vars

\* C5 witness: a settle of mesa 1 went through its commit while mesa 2
\* holds an order and is occupied.
C5_CommitBesideAnotherOrder ==
  /\ last.op = "settle" /\ last.code = 500 /\ last.mesa = 1
  /\ Lines(1) = {} /\ Lines(2) # {} /\ tables[2] = "occupied"

C3_AmountReconciles ==
  [][\A h \in Solo :
       (SettlePrice(h) /\ pc'[h] = "pay")
         => LET r == req[h]
                S == serverSubtotal(
                       getOrderItems(orderItems, heap, r.tableId), heap)
                discountAmount == IF r.discountType = "fixed"
                                  THEN r.discount
                                  ELSE RoundDiv(S * r.discount, 1000000) * 10
                base == Max(0, S - discountAmount)
            IN pay'[h].amount = base + RoundDiv(base * 8, 1000) * 10 + r.tip]_vars

\* C7. Linearized settlement: two settles with the same fingerprint are
\* never both past the creation of their payment record.
C7_AtMostOneCreates ==
  \A g, h \in Handlers :
    (g # h /\ pc[g] = "invoice" /\ pc[h] = "invoice")
      => cacheKey(req[g]) # cacheKey(req[h])

\* C8. Ledger mutation versus settlement: every line the commit of a settle
\* removes from the ledger is one of the lines that settle read and priced.
C8_ClearedLinesWerePriced ==
  [][\A h \in Solo :
       SettleCommit(h) => (orderItems \ orderItems') \subseteq snap[h]]_vars

\* C9. Commit is all-or-nothing: a settle step that answers 500 leaves the
\* lines of its mesa in the ledger and does not make the mesa available.
C9_FatalErrorRollsBack ==
  [][\A h \in Solo, t \in TableIds :
       (SettleStep(h) /\ req[h].tableId = t /\ last'.code = 500)
         => /\ Lines(t)' = Lines(t)
            /\ tables'[t] = "available" => tables[t] = "available"]_vars

\* C10. Every settle that commits stores its success result in the
\* idempotency cache under the request's fingerprint and answers it; no
\* other result is ever in the cache.
C10_CommitCachesSuccess ==
  [][/\ \A h \in Solo :
          SettleCommit(h)
            => /\ cacheKey(req[h]) \in DOMAIN idempotencyCache'
               /\ last'.code = 200
               /\ idempotencyCache'[cacheKey(req[h])] = last'
     /\ \A k \in DOMAIN idempotencyCache' :
          idempotencyCache'[k].code = 200]_vars

\* C11. Settling an empty table fails: a settle of a mesa with no order
\* line, on either route, answers 400 and changes nothing else: the handler
\* ends without awaiting a collaborator, no payment or invoice record is
\* created, the ledger and the table statuses are as before, and nothing is
\* cached.  (On /api/payments/complete-colombian the case is a key that is
\* not cached; the cache is consulted before the ledger.)
C11_EmptyTableSettleFails ==
  [][/\ \A r \in SettleRequests :
          ((\A i \in orderItems : heap[i].mesaId # r.tableId)
             /\ cacheKey(r) \notin DOMAIN idempotencyCache
             /\ \E h \in Solo : SettleStart(h, r))
            => /\ last'.op = "settle" /\ last'.code = 400
               /\ last'.errors = <<"No order items found">>
               /\ UNCHANGED <<heap, nextId, orderItems, tables,
                              idempotencyCache, payments, invoices, pc, req,
                              snap, pay, kitchen, checkout>>
     /\ \A r \in CheckoutRequests :
          ((\A i \in orderItems : heap[i].mesaId # r.tableId)
             /\ CheckoutStart(r))
            => /\ last'.op = "checkout" /\ last'.code = 400
               /\ UNCHANGED <<heap, nextId, orderItems, tables,
                              idempotencyCache, payments, invoices, pc, req,
                              snap, pay, kitchen, checkout>>]_vars

\* C11 witness: a settle of a mesa without lines was answered 400 while the
\* other mesa holds an order, after an earlier settle created a payment.
C11_EmptySettleRefused ==
  /\ last.op = "settle" /\ last.code = 400
  /\ last.errors = <<"No order items found">>
  /\ \A i \in orderItems : heap[i].mesaId # last.mesa
  /\ orderItems # {}
  /\ Len(payments) > 0

\* C12. Collaborator outage does not block settlement: a settle that passed
\* validation and awaits the payment workflow can always go on when the
\* workflow fails, times out or is not configured, and a settle that awaits
\* the invoice workflow can always commit; the step that leaves the payment
\* await creates the payment record, and the step that leaves the invoice
\* await leaves the ledger of the mesa empty and the mesa available.
C12_OutageDoesNotBlock ==
  /\ [](\A h \in Solo :
          /\ pc[h] = "pay" => ENABLED SettlePay(h, NoExec)
          /\ pc[h] = "invoice" => ENABLED SettleCommit(h))
  /\ [][\A h \in Solo :
          /\ (pc[h] = "pay" /\ pc'[h] # "pay")
               => /\ pc'[h] = "invoice"
                  /\ Len(payments') = Len(payments) + 1
                  /\ payments'[Len(payments')].id = pay'[h].id
          /\ (pc[h] = "invoice" /\ pc'[h] # "invoice")
               => /\ pc'[h] = "idle"
                  /\ payments' = payments
                  /\ \A i \in orderItems' :
                       heap'[i].mesaId # req[h].tableId
                  /\ tables'[req[h].tableId] = "available"]_vars

\* C12 witness: the settle that answered last ran without an execution id
\* from the payment workflow: its record carries a local uuid, the ledger
\* of its mesa is empty and the mesa is available.
C12_CommittedWithoutWorkflow ==
  /\ last.op = "settle" /\ last.key # NoKey
  /\ Len(payments) > 0
  /\ payments[Len(payments)].id = randomUUID(Len(payments))
  /\ \A i \in orderItems : heap[i].mesaId # last.mesa
  /\ tables[last.mesa] = "available"

\* C13. Strict step order of a settle: a handler starts to await the
\* payment workflow only in a step in which the breakdown recomputed from
\* the ledger passed validation; a settle step that removes lines from the
\* ledger finds the payment record and the invoice record of its handler
\* already created, and leaves the table statuses alone; a settle step that
\* sets the table available finds the ledger of the mesa already empty; and
\* a step that writes the idempotency cache finds the record created, the
\* ledger empty and the table available.  (The workflows meant are those of
\* payment, invoice and analytics; the catalog is consulted by the pricing
\* that validation needs.)
C13_StepOrder ==
  [][\A h \in Solo :
       /\ (pc'[h] = "pay" /\ pc[h] # "pay")
            => LET v == validateColombianPayment(
                          paymentData(req'[h], serverSubtotal(snap'[h], heap)))
               IN ~v.threw /\ v.isValid
       /\ (orderItems' # orderItems /\ orderItems' \subseteq orderItems)
            => /\ \E k \in 1..Len(payments) : payments[k].id = pay[h].id
               /\ \E k \in 1..Len(invoices) :
                    invoices[k].paymentId = pay[h].id
               /\ tables' = tables
       /\ (tables' # tables /\ pc'[h] # pc[h])
            => /\ tables'[req[h].tableId] = "available"
               /\ \A i \in orderItems : heap[i].mesaId # req[h].tableId
       /\ idempotencyCache' # idempotencyCache
            => /\ \E k \in 1..Len(payments) : payments[k].id = pay[h].id
               /\ \A i \in orderItems : heap[i].mesaId # req[h].tableId
               /\ tables[req[h].tableId] = "available"]_vars

\* C13 witness: the handler stands between the clearing of the ledger and
\* the freeing of the table: its records exist, the ledger of its mesa is
\* empty, and the mesa is still occupied.
C13_ClearedNotYetFreed ==
  \E h \in Solo :
    /\ pc[h] = "free"
    /\ \E k \in 1..Len(payments) : payments[k].id = pay[h].id
    /\ \A i \in orderItems : heap[i].mesaId # req[h].tableId
    /\ tables[req[h].tableId] = "occupied"

\* C14. Cash shortfall: when a cash settle prices its order and the cash
\* tendered is positive and lower than the total the server computes from
\* a positive subtotal, validation returns exactly one error, the handler
\* answers 400, no payment or invoice record is created, and the ledger and
\* the table statuses are as before; the same holds for the cash check of
\* /api/complete-payment.
C14_CashShortfall ==
  [][/\ \A h \in Solo :
          (pc[h] = "price" /\ req[h].paymentMethod = "efectivo"
             /\ SettlePrice(h))
            => LET S == serverSubtotal(snap[h], heap)
                   r == req[h]
                   total == calculateTotals(S, r.tip, r.discount,
                                            r.discountType).finalTotal
               IN (S > 0 /\ r.cashReceived > 0 /\ r.cashReceived < total)
                    => /\ Len(validateColombianPayment(
                                paymentData(r, S)).errors) = 1
                       /\ last'.op = "settle" /\ last'.code = 400
                       /\ Len(last'.errors) = 1
                       /\ pc'[h] = "idle"
                       /\ UNCHANGED <<orderItems, tables, payments, invoices,
                                      idempotencyCache>>
                       /\ \A i \in orderItems : heap'[i] = heap[i]
     /\ (checkout.pc = "price" /\ checkout.req.paymentMethod = "cash"
          /\ CheckoutPrice)
         => LET S == serverSubtotal(checkout.snap, heap)
                r == checkout.req
                total == completePaymentTotals(S, r.tip, r.discount,
                                               r.discountType).finalTotal
            IN (r.cashReceived > 0 /\ r.cashReceived < total)
                 => /\ last'.op = "checkout" /\ last'.code = 400
                    /\ UNCHANGED <<orderItems, tables, payments, invoices,
                                   idempotencyCache>>
                    /\ \A i \in orderItems : heap'[i] = heap[i]]_vars

\* C14 witness: a settle of an order of 50.00, whose total is 54.00, was
\* answered 400 for insufficient cash; the order is in the ledger, the mesa
\* is occupied and no payment record exists.
C14_FiftyTenderedForFiftyFour ==
  /\ last.op = "settle" /\ last.code = 400
  /\ last.errors = <<"Efectivo insuficiente">>
  /\ serverSubtotal(getOrderItems(orderItems, heap, last.mesa), heap) = 50000
  /\ calculateTotals(50000, 0, 0, "percentage").finalTotal = 54000
  /\ tables[last.mesa] = "occupied"
  /\ payments = <<>>

\* The checks of validation that a payload fails, told apart from the
\* code: table id, subtotal, method, and the fields of the method.  The
\* shortfall of cash is a failed check where a total exists.
FailedChecks(pd) ==
  {c \in {"tableId", "subtotal", "method", "cash", "shortfall",
          "transactionId", "terminalKind", "reference"} :
     \/ c = "tableId" /\ pd.tableId <= 0
     \/ c = "subtotal" /\ pd.subtotal <= 0
     \/ c = "method" /\ pd.paymentMethod \notin PaymentMethods
     \/ c = "cash" /\ pd.paymentMethod = "efectivo"
          /\ (pd.cashReceived = NoCash \/ pd.cashReceived <= 0)
     \/ c = "shortfall" /\ pd.paymentMethod = "efectivo"
          /\ pd.cashReceived > 0 /\ pd.subtotal >= 0
          /\ pd.cashReceived < pd.subtotal + RoundDiv(pd.subtotal * 8, 100)
     \/ c = "transactionId"
          /\ pd.paymentMethod \in {"datafono_debito", "datafono_credito"}
          /\ pd.datafonoTransactionId \in {Undef, ""}
     \/ c = "terminalKind"
          /\ pd.paymentMethod \in {"datafono_debito", "datafono_credito"}
          /\ pd.datafonoType = Undef
     \/ c = "reference" /\ pd.paymentMethod = "qr_bancolombia"
          /\ pd.qrReference \in {Undef, ""}}

\* The reason validation gives for a failed check.
Reason(c) ==
  CASE c = "tableId" -> "ID de mesa valido es requerido"
    [] c = "subtotal" -> "Subtotal debe ser mayor que cero"
    [] c = "method" -> "Metodo de pago invalido para Colombia"
    [] c = "cash" -> "Monto recibido en efectivo es requerido"
    [] c = "shortfall" -> "Efectivo insuficiente"
    [] c = "transactionId" -> "ID de transaccion de datafono es requerido"
    [] c = "terminalKind" -> "Tipo de datafono es requerido"
    [] c = "reference" -> "Referencia de QR Bancolombia es requerida"

\* The list holds the reason of every failed check of the payload.
HoldsAllReasons(errors, pd) ==
  \A c \in FailedChecks(pd) :
    \E k \in 1..Len(errors) : errors[k] = Reason(c)

\* C15. validate reports all failed checks at once: a call of
\* validateColombianPayment returns an error list that holds the reason of
\* every check the payload fails.
C15_AllFailedChecksReported ==
  (probe.calls > 0 /\ probe.result.op = "validate")
    => /\ ~probe.result.out.threw
       /\ HoldsAllReasons(probe.result.out.errors, probe.args)

\* On the payloads for which validation returns the list is complete, and
\* processColombianPayment passes it on.
AllReasonsWhereReturned ==
  (probe.calls > 0 /\ ~validateColombianPayment(probe.args).threw)
    => /\ HoldsAllReasons(probe.result.out.errors, probe.args)
       /\ probe.result.op = "validate"
            => (probe.result.out.isValid <=> FailedChecks(probe.args) = {})
       /\ probe.result.op = "process"
            => (probe.result.out.ok <=> FailedChecks(probe.args) = {})

\* C16. Method-specific minimum length: a settle that passed validation
\* (its handler awaits a workflow, the payment record being created in the
\* same stretch) carries, for a card terminal, a transaction id of at least
\* the minimum length and, for QR, a reference of at least its minimum
\* length.
C16_ShortIdsRejected ==
  \A h \in Solo :
    pc[h] \in {"pay", "invoice"}
      => /\ req[h].paymentMethod \in {"datafono_debito", "datafono_credito"}
              => /\ req[h].datafonoTransactionId # Undef
                 /\ Len(req[h].datafonoTransactionId)
                      >= MinTransactionIdLength
         /\ req[h].paymentMethod = "qr_bancolombia"
              => /\ req[h].qrReference # Undef
                 /\ Len(req[h].qrReference) >= MinQrReferenceLength

\* C17. Pricing never goes negative and is deterministic: on non-negative
\* subtotal, tip and discount and either discount type, calculateTotals
\* does not throw, and both pricings yield a total that is at least the tax
\* plus the tip (the discounted subtotal, which is what remains, is not
\* negative) and a tax and a tip that are not negative; where the discount
\* exceeds the subtotal the total is the tip alone.  A second call on the
\* same arguments yields the breakdown of the first.
C17_PricingNonNegativeDeterministic ==
  /\ [](probe.calls > 0
          => LET out == probe.result.out
                 a == probe.args
                 tax == IF probe.result.op = "calculateTotals"
                        THEN out.impoconsumo ELSE out.tax
                 covered == \/ a.discountType = "fixed"
                               /\ a.discount >= a.subtotal + 5
                            \/ a.discountType = "percentage"
                               /\ a.discount >= 100000
             IN /\ probe.result.op = "calculateTotals" => ~out.threw
                /\ tax >= 0 /\ out.tip >= 0 /\ out.discount >= 0
                /\ out.finalTotal >= 0
                /\ out.finalTotal - tax - out.tip >= 0
                /\ covered => (tax = 0 /\ out.finalTotal = out.tip))
  /\ [][(probe.calls > 0 /\ probe'.result.op = probe.result.op)
          => probe'.result = probe.result]_vars

\* C17 witness: a percentage discount of 150 on a subtotal of 50.00 with a
\* tip of 5.00 was priced twice; the total is the tip.
C17_DiscountAboveSubtotal ==
  /\ probe.calls = MaxCalls
  /\ probe.args = [subtotal |-> 50000, tip |-> 5000, discount |-> 150000,
                   discountType |-> "percentage"]
  /\ probe.result.op = "calculateTotals"
  /\ probe.result.out.finalTotal = 5000

\* C18. Rounding at each step: the tax calculateTotals returns is the
\* discounted subtotal times the rate, rounded to the cent (half a cent
\* up), the tip it returns is the tip rounded to the cent, and the total is
\* the discounted subtotal plus that tax plus that tip; a subtotal of 19.99
\* without tip or discount yields tax 1.60 and total 21.59.
C18_RoundedAtEachStep ==
  (probe.calls > 0 /\ probe.result.op = "calculateTotals")
    => LET out == probe.result.out
           a == probe.args
           finalSubtotal == IF a.subtotal >= out.discount
                            THEN a.subtotal - out.discount ELSE 0
       IN /\ out.impoconsumo % 10 = 0
          /\ 100 * out.impoconsumo <= 8 * finalSubtotal + 500
          /\ 100 * out.impoconsumo > 8 * finalSubtotal - 500
          /\ out.tip % 10 = 0
          /\ out.tip <= a.tip + 5 /\ out.tip > a.tip - 5
          /\ out.finalTotal = finalSubtotal + out.impoconsumo + out.tip
          /\ (a.subtotal = 19990 /\ a.tip = 0 /\ a.discount = 0)
               => (out.impoconsumo = 1600 /\ out.finalTotal = 21590)

\* C18 witness: 19.99 without tip or discount was priced: tax 1.60, total
\* 21.59.
C18_NineteenNinetyNine ==
  /\ probe.calls > 0
  /\ probe.result.op = "calculateTotals"
  /\ probe.args.subtotal = 19990 /\ probe.args.tip = 0
  /\ probe.args.discount = 0
  /\ probe.result.out.impoconsumo = 1600
  /\ probe.result.out.finalTotal = 21590

\* C19. Every payment record settle created has status completed, and the
\* invoice record created with it, the one at the same place of the log,
\* references its id and has DIAN status pending.
C19_CompletedWithPendingInvoice ==
  /\ Len(invoices) = Len(payments)
  /\ \A k \in 1..Len(payments) :
       /\ payments[k].status = "completed"
       /\ invoices[k].paymentId = payments[k].id
       /\ invoices[k].dianStatus = "pending"

\* C20. Order line quantity invariant: every order line in the ledger has
\* a quantity of at least 1.
C20_QuantityAtLeastOne ==
  \A i \in orderItems : heap[i].quantity >= 1

\* C21. Permissive table state machine: the status of every table is always
\* available, occupied or reserved; whatever the statuses are, a setStatus
\* of an existing table to any of the three can be taken, answers 200, and
\* leaves the table in the status sent.
C21_PermissiveStateMachine ==
  /\ [](\A t \in TableIds :
          /\ tables[t] \in validStatuses
          /\ \A st \in validStatuses : ENABLED SetStatus(t, st))
  /\ [][\A t \in TableIds, st \in validStatuses :
          SetStatus(t, st)
            => (last'.op = "setStatus" /\ last'.code = 200
                /\ tables'[t] = st)]_vars

\* C21 witness: a setStatus was answered 200 with one table reserved and
\* the other occupied by an order.
C21_ReservedBesideOccupied ==
  /\ last.op = "setStatus" /\ last.code = 200
  /\ tables[1] = "reserved"
  /\ tables[2] = "occupied"
  /\ \E i \in orderItems : heap[i].mesaId = 2

\* C22. setStatus on an unknown table id, with a valid status, answers 404
\* and creates no table: the registry has the tables and the statuses it
\* had.
C22_UnknownTableNotCreated ==
  /\ [](DOMAIN tables = TableIds)
  /\ [][\A st \in validStatuses :
          SetStatus(UnknownTable, st)
            => (last'.op = "setStatus" /\ last'.code = 404
                /\ tables' = tables)]_vars

\* C22 witness: a setStatus was answered 404 while a table is reserved.
C22_NotFoundAnswered ==
  /\ last.op = "setStatus" /\ last.code = 404
  /\ tables[1] = "reserved"
  /\ UnknownTable \notin DOMAIN tables

\* C23. The reads of the registry leave it alone: a step of GET /api/tables
\* or of GET /api/tables/:id changes the status of no table.
C23_ReadsLeaveStatuses ==
  [][((\E data \in TablesData : ListTables(data))
        \/ (\E t \in TableIds \cup {UnknownTable} : GetTable(t)))
       => tables' = tables]_vars

\* A dispatch handler of table t answers success in this step.
DispatchSucceeds(k) ==
  /\ kitchen[k].pc = "fetch"
  /\ kitchen'[k].pc = "idle"
  /\ last'.op = "sendToKitchen"
  /\ last'.code = 200

\* C24 as stated, for every routes file: a successful sendToKitchen for
\* table T sets T occupied and leaves the order lines in the ledger
\* unchanged.
C24_DispatchKeepsLinesEverywhere ==
  [][\A k \in Dispatchers :
       DispatchSucceeds(k) =>
         /\ tables'[kitchen[k].mesa] = "occupied"
         /\ orderItems' = orderItems
         /\ \A i \in orderItems : heap'[i] = heap[i]]_vars

\* C24: where the routes file has the settlement (the retaining variant), a
\* successful sendToKitchen for table T sets T occupied and leaves the order
\* lines in the ledger unchanged, so that a later settle prices those lines.
C24_DispatchKeepsLines ==
  [][\A k \in Dispatchers :
       (deployment = "retaining" /\ DispatchSucceeds(k)) =>
         /\ tables'[kitchen[k].mesa] = "occupied"
         /\ orderItems' = orderItems
         /\ \A i \in orderItems : heap'[i] = heap[i]]_vars

\* A dispatch answered success and the settle that followed took every line
\* of the occupied table into its pricing.
C24_SettlePricesDispatchedLines ==
  /\ deployment = "retaining"
  /\ last.op = "sendToKitchen"
  /\ last.code = 200
  /\ pc["h1"] = "pay"
  /\ snap["h1"] # {}
  /\ snap["h1"] = {i \in orderItems : heap[i].mesaId = req["h1"].tableId}
  /\ tables[req["h1"].tableId] = "occupied"

\* Two dispatches of the same table are awaiting the webhook.
Overlapping(k, k2) ==
  /\ k # k2
  /\ kitchen[k].pc = "fetch"
  /\ kitchen[k2].pc = "fetch"
  /\ kitchen[k].mesa = kitchen[k2].mesa

\* C25: when two sendToKitchen calls for the same table run concurrently,
\* also interleaved with adds, no order line is lost: a call that succeeds
\* while the other is still in flight takes out of the ledger no line that
\* is in neither call's ticket, and leaves the table occupied.
C25_ConcurrentDispatchLosesNoLine ==
  [][\A k, k2 \in Dispatchers :
       (Overlapping(k, k2) /\ DispatchSucceeds(k)) =>
         /\ (orderItems \ orderItems')
              \subseteq (kitchen[k].productos \cup kitchen[k2].productos)
         /\ tables'[kitchen[k].mesa] = "occupied"]_vars

RECURSIVE fullPrice(_, _)
fullPrice(ids, hp) ==
  IF ids = {} THEN 0
  ELSE LET i == CHOOSE x \in ids : TRUE
       IN hp[i].quantity * Price(hp[i].productId) + fullPrice(ids \ {i}, hp)

\* C27: every order line a successful settle read and then removed from the
\* ledger contributed quantity x price to that settle's subtotal, also when
\* the menu changed since the line was added.
C27_NoUnpricedLineCleared ==
  [][\A h \in Solo :
       SettleCommit(h) =>
         pay[h].subtotal
           >= round2(fullPrice((orderItems \ orderItems') \cap snap[h], heap))
    ]_vars

C29_FingerprintsSeparatePricings ==
  \A g, h \in Handlers :
    (/\ pc[g] = "pay"
     /\ pc[h] = "pay"
     /\ req[g].tableId = req[h].tableId
     /\ snap[g] = snap[h]
     /\ pay[g].amount # pay[h].amount)
      => cacheKey(req[g]) # cacheKey(req[h])

\* C30: any two settlements produce payment records with different ids, and
\* invoice records with different paymentId, whatever execution identifier
\* the payment workflow returned, none included.
C30_PaymentIdsUnique ==
  /\ \A i, j \in 1..Len(payments) :
       i # j => payments[i].id # payments[j].id
  /\ \A i, j \in 1..Len(invoices) :
       i # j => invoices[i].paymentId # invoices[j].paymentId

====
